---- MODULE Spec2Model ----
(***************************************************************************)
(* The two serverless handlers of the BI dashboard:                        *)
(*   /api/stocks       (stocks.js, kept in src/README.md lines 242-397)    *)
(*   /api/transcripts  (src/api/transcripts.js)                            *)
(* One request is followed from its arrival to its response.  The          *)
(* synchronous part of a handler (up to its first await) is one action,    *)
(* every upstream promise settles in its own action, and the code after    *)
(* the await is one action.                                                *)
(*                                                                         *)
(* JavaScript values are tagged records: Undefined, JsonNull, Str(s) with  *)
(* s a sequence of one-character strings, Num(n), Arr(a).                  *)
(***************************************************************************)
EXTENDS Integers, Sequences, FiniteSets, TLC

VARIABLES
  pc,        \* where the handler is: "idle", "await" (suspended), "done"
  env,       \* process.env
  req,       \* the request being handled
  fetchLog,  \* the upstream requests issued, in order
  calls,     \* the client promises of this request, by ticker
  res,       \* the response object
  log        \* the console.error lines written (as a set)

vars == <<pc, env, req, fetchLog, calls, res, log>>

\* Largest price the mocked upstream reports (prices are 0..MaxPrice).
MaxPrice == 1

-----------------------------------------------------------------------------
\* JavaScript values

Undefined == [type |-> "undefined"]
JsonNull == [type |-> "null"]
Str(s) == [type |-> "string", val |-> s]
Num(n) == [type |-> "number", val |-> n]
Arr(a) == [type |-> "array", val |-> a]

\* !v for the values that occur: undefined, null, "" and 0 are falsy.
Falsy(v) ==
  \/ v.type \in {"undefined", "null"}
  \/ v.type = "string" /\ Len(v.val) = 0
  \/ v.type = "number" /\ v.val = 0

\* a || b
OrElse(a, b) == IF Falsy(a) THEN b ELSE a

Lower == <<"a","b","c","d","e","f","g","h","i","j","k","l","m",
           "n","o","p","q","r","s","t","u","v","w","x","y","z">>
Upper == <<"A","B","C","D","E","F","G","H","I","J","K","L","M",
           "N","O","P","Q","R","S","T","U","V","W","X","Y","Z">>

\* String.prototype.toUpperCase on a sequence of characters.
toUpperCase(s) ==
  [i \in 1..Len(s) |->
     IF \E k \in 1..Len(Lower) : Lower[k] = s[i]
       THEN Upper[CHOOSE k \in 1..Len(Lower) : Lower[k] = s[i]]
       ELSE s[i]]

-----------------------------------------------------------------------------
\* COMPANIES

AAPL == <<"A","A","P","L">>
MSFT == <<"M","S","F","T">>
GOOGL == <<"G","O","O","G","L">>
META == <<"M","E","T","A">>
AMZN == <<"A","M","Z","N">>

\* Object.keys(COMPANIES): the own keys in insertion order.
ObjectKeys == <<AAPL, MSFT, GOOGL, META, AMZN>>

Tickers == {ObjectKeys[i] : i \in 1..Len(ObjectKeys)}

COMPANIES ==
  [t \in Tickers |->
     CASE t = AAPL -> "Apple Inc."
       [] t = MSFT -> "Microsoft Corporation"
       [] t = GOOGL -> "Alphabet Inc. (Google)"
       [] t = META -> "Meta Platforms Inc."
       [] t = AMZN -> "Amazon.com Inc."]

\* A property every object literal inherits from Object.prototype.
ProtoConstructor == <<"c","o","n","s","t","r","u","c","t","o","r">>

\* COMPANIES[key]: an own property, an inherited one, or undefined.
CompaniesLookup(key) ==
  IF key \in Tickers THEN Str(COMPANIES[key])
  ELSE IF key = ProtoConstructor THEN [type |-> "function"]
  ELSE Undefined

-----------------------------------------------------------------------------
\* The upstream (api.api-ninjas.com), as the handlers can observe it

\* error.message of a caught Error: a text, and the ticker and HTTP status
\* interpolated into it (<<>> and 0 when the text has none).
Msg(text, ticker, status) == [text |-> text, ticker |-> ticker, status |-> status]

\* What one upstream call turned out to be: the fetch promise (net, status)
\* and the response.json() promise (json, data).
Upstream(net, status, json, data) ==
  [net |-> net, status |-> status, json |-> json, data |-> data]

HttpStatuses == {200, 500}

\* How fetch() can settle: rejected (network error), or a response.
FetchOutcomes ==
  {[net |-> "reject", status |-> 0]}
  \cup {[net |-> "response", status |-> s] : s \in HttpStatuses}

\* response.ok
ResponseOk(status) == status \in 200..299

Prices == 0..MaxPrice

\* Bodies the price endpoint can answer with: null, an object without price,
\* an object whose price is a string, an object with a numeric price.
StockBodies ==
  {JsonNull} \cup
  {[type |-> "object", price |-> p] :
     p \in {Undefined, Str(<<"1">>)} \cup {Num(n) : n \in Prices}}

TranscriptBody(transcript, meta, list) ==
  [type |-> "object", transcript |-> transcript,
   date |-> meta, timestamp |-> meta, year |-> meta, quarter |-> meta,
   earnings_timing |-> meta, participants |-> list, transcript_split |-> list]

TranscriptText == Str(<<"t","e","x","t">>)

\* Bodies the transcript endpoint can answer with: null, an object without
\* transcript, one with an empty transcript, one with a transcript alone, and
\* a complete one.
TranscriptBodies ==
  { JsonNull,
    TranscriptBody(Undefined, Undefined, Undefined),
    TranscriptBody(Str(<<>>), Str(<<"m">>), Arr(<<Str(<<"p">>)>>)),
    TranscriptBody(TranscriptText, Undefined, Undefined),
    TranscriptBody(TranscriptText, Str(<<"m">>), Arr(<<Str(<<"p">>)>>)) }

-----------------------------------------------------------------------------
\* fetchStockPrice

StockUrl(ticker, apiKey) ==
  [path |-> "/v1/stockprice", ticker |-> ticker, apiKey |-> apiKey]

ValidPriceData_truthy(data) == ~Falsy(data) /\ ~Falsy(data.price)

\* data && typeof data.price === 'number'
ValidPriceData(data) == ~Falsy(data) /\ data.price.type = "number"

StockFailure(ticker, message) ==
  [ticker |-> ticker, companyName |-> CompaniesLookup(ticker),
   price |-> JsonNull, success |-> FALSE, error |-> message]

\* The Result fetchStockPrice(ticker, apiKey) resolves to when the upstream
\* behaves as `up`.  Every throw inside the try block lands in the catch.
fetchStockPrice(ticker, up) ==
  IF up.net = "reject"
    THEN StockFailure(ticker, Msg("fetch failed", <<>>, 0))
  ELSE IF ~ResponseOk(up.status)
    THEN StockFailure(ticker, Msg("API request failed for", ticker, up.status))
  ELSE IF up.json = "syntax_error"
    THEN StockFailure(ticker, Msg("Unexpected token in JSON", <<>>, 0))
  ELSE IF ~ValidPriceData(up.data)
    THEN StockFailure(ticker, Msg("Invalid data received for", ticker, 0))
  ELSE [ticker |-> ticker, companyName |-> CompaniesLookup(ticker),
        price |-> up.data.price, success |-> TRUE]

-----------------------------------------------------------------------------
\* fetchEarningsTranscript

TranscriptUrl(ticker, apiKey) ==
  [path |-> "/v1/earningstranscript", ticker |-> ticker, apiKey |-> apiKey]

\* data && data.transcript
ValidTranscriptData(data) == ~Falsy(data) /\ ~Falsy(data.transcript)

TranscriptFailure(ticker, message) ==
  [ticker |-> ticker, companyName |-> CompaniesLookup(ticker),
   success |-> FALSE, error |-> message]

fetchEarningsTranscript(ticker, up) ==
  IF up.net = "reject"
    THEN TranscriptFailure(ticker, Msg("fetch failed", <<>>, 0))
  ELSE IF ~ResponseOk(up.status)
    THEN TranscriptFailure(ticker, Msg("API request failed for", ticker, up.status))
  ELSE IF up.json = "syntax_error"
    THEN TranscriptFailure(ticker, Msg("Unexpected token in JSON", <<>>, 0))
  ELSE IF ~ValidTranscriptData(up.data)
    THEN TranscriptFailure(ticker, Msg("No transcript data available for", ticker, 0))
  ELSE [ticker |-> ticker, companyName |-> CompaniesLookup(ticker),
        date |-> up.data.date, timestamp |-> up.data.timestamp,
        year |-> up.data.year, quarter |-> up.data.quarter,
        earningsTiming |-> up.data.earnings_timing,
        transcript |-> up.data.transcript,
        participants |-> OrElse(up.data.participants, Arr(<<>>)),
        transcriptSplit |-> OrElse(up.data.transcript_split, Arr(<<>>)),
        success |-> TRUE]

\* The console.error line a client writes in its catch block.
ClientLog(prefix, result) ==
  IF result.success THEN {}
  ELSE {[line |-> prefix, ticker |-> result.ticker, detail |-> result.error]}

-----------------------------------------------------------------------------
\* What both handlers share

Methods == {"GET", "OPTIONS", "POST", "PUT", "DELETE", "HEAD"}

\* process.env.API_KEY: unset, set to the empty string, or set.
ApiKeys == {Undefined, Str(<<>>), Str(<<"k","e","y">>)}

CorsHeaders ==
  { "Access-Control-Allow-Credentials", "Access-Control-Allow-Origin",
    "Access-Control-Allow-Methods", "Access-Control-Allow-Headers" }

MethodAllowed_post(method) == method \in {"GET", "POST"}

\* req.method === 'GET'
MethodAllowed(method) == method = "GET"

ApiKeyMissing_unset(apiKey) == apiKey.type = "undefined"

\* !apiKey
ApiKeyMissing(apiKey) == Falsy(apiKey)

\* A step of the handler that answers: res.status(status).json(body), or
\* .end() when body is Undefined, and the lines it logs before.
Respond(status, body, lines) ==
  [kind |-> "respond", status |-> status, body |-> body, log |-> lines]

PreflightResponse == Respond(200, Undefined, {})

MethodNotAllowedResponse ==
  Respond(405, [error |-> "Method not allowed",
                message |-> "Only GET requests are supported"], {})

ConfigErrorResponse ==
  Respond(500, [error |-> "Server configuration error",
                message |-> "API key not configured. Please set API_KEY environment variable."],
          {[line |-> "API_KEY environment variable is not configured"]})

\* The catch clause at the handler boundary, for the caught `error`.
InternalErrorResponse(what, error) ==
  Respond(500, [error |-> "Internal server error",
                message |-> Msg(what, <<>>, 0),
                details |-> error.message],
          {[line |-> "Unexpected error", error |-> error]})

-----------------------------------------------------------------------------
\* Stocks handler (stocks.js)

\* The handler up to its first await: an answer, or the fan-out.
StocksSync(method, apiKey) ==
  IF method = "OPTIONS" THEN PreflightResponse
  ELSE IF ~MethodAllowed(method) THEN MethodNotAllowedResponse
  ELSE IF ApiKeyMissing(apiKey) THEN ConfigErrorResponse
  ELSE [kind |-> "fetch", tickers |-> ObjectKeys]

PromiseAll_partial(cs, tickers) ==
  [settled |-> \E i \in 1..Len(tickers) : cs[tickers[i]].phase = "fulfilled",
   values |-> LET done == SelectSeq(tickers, LAMBDA t : cs[t].phase = "fulfilled")
              IN [i \in 1..Len(done) |-> cs[done[i]].result]]

\* Promise.all(stockPromises): settled once every promise is fulfilled (no
\* client promise ever rejects), with the results in the order of the promises.
PromiseAll(cs, tickers) ==
  [settled |-> \A i \in 1..Len(tickers) : cs[tickers[i]].phase = "fulfilled",
   values |-> [i \in 1..Len(tickers) |-> cs[tickers[i]].result]]

\* results.filter(r => r.success)
successfulResults(results) == SelectSeq(results, LAMBDA r : r.success)

failedResults_copied(results) == SelectSeq(results, LAMBDA r : r.success)

\* results.filter(r => !r.success)
failedResults(results) == SelectSeq(results, LAMBDA r : ~r.success)

AllUpstreamFailed_anyFailed(successful) == Len(successful) < Len(ObjectKeys)

\* successfulResults.length === 0
AllUpstreamFailed(successful) == Len(successful) = 0

StocksMetadata_countsSuccesses(tickers, successful, failed) ==
  [total |-> Len(successful), successful |-> Len(successful), failed |-> Len(failed)]

StocksMetadata(tickers, successful, failed) ==
  [total |-> Len(tickers), successful |-> Len(successful), failed |-> Len(failed)]

\* The handler after `await Promise.all(...)`.
StocksRespond(tickers, results) ==
  LET successful == successfulResults(results)
      failed == failedResults(results)
      responseData ==
        [timestamp |-> "toISOString",
         stocks |-> [i \in 1..Len(successful) |->
                       [ticker |-> successful[i].ticker,
                        companyName |-> successful[i].companyName,
                        price |-> successful[i].price]],
         metadata |-> StocksMetadata(tickers, successful, failed)]
      warnings ==
        [i \in 1..Len(failed) |->
           [ticker |-> failed[i].ticker, companyName |-> failed[i].companyName,
            message |-> "Failed to fetch data"]]
  IN IF AllUpstreamFailed(successful)
       THEN Respond(503,
              [error |-> "Service unavailable",
               message |-> "Unable to fetch stock data from API",
               details |-> [i \in 1..Len(failed) |->
                              [ticker |-> failed[i].ticker, error |-> failed[i].error]]],
              {})
     ELSE IF Len(failed) > 0
       THEN Respond(200,
              [timestamp |-> responseData.timestamp, stocks |-> responseData.stocks,
               metadata |-> responseData.metadata, warnings |-> warnings], {})
     ELSE Respond(200, responseData, {})

-----------------------------------------------------------------------------
\* Transcripts handler (transcripts.js)

\* The values req.query.ticker takes on the platform: absent, a string, or an
\* array of strings when the parameter is repeated.
CaseVariants(t) ==
  { [i \in 1..Len(t) |->
       IF i \in S THEN Lower[CHOOSE k \in 1..Len(Upper) : Upper[k] = t[i]] ELSE t[i]] :
    S \in SUBSET (1..Len(t)) }

QueryTickers ==
  {Undefined, Str(<<>>)}
  \cup {Str(v) : v \in UNION {CaseVariants(t) : t \in Tickers}}
  \cup {Str(<<"X","Y","Z">>), Str(<<"x","y","z">>), Str(<<"M","S","F">>),
        Str(<<"M","S","F","T","X">>), Str(ProtoConstructor)}
  \cup {Arr(<<Str(MSFT), Str(AAPL)>>), Arr(<<Str(<<"x","y","z">>), Str(<<"x","y","z">>)>>)}

upperTickerOf_raw(ticker) == ticker.val

\* const upperTicker = ticker.toUpperCase()
upperTickerOf(ticker) == toUpperCase(ticker.val)

\* The handler up to its first await: an answer, or the one upstream call.
TranscriptsSync(method, apiKey, ticker) ==
  IF method = "OPTIONS" THEN PreflightResponse
  ELSE IF ~MethodAllowed(method) THEN MethodNotAllowedResponse
  ELSE IF ApiKeyMissing(apiKey) THEN ConfigErrorResponse
  ELSE IF Falsy(ticker)
    THEN Respond(200, [message |-> "Provide a ticker parameter to fetch transcript",
                       availableTickers |-> ObjectKeys,
                       example |-> "/api/transcripts?ticker=MSFT"], {})
  ELSE IF ticker.type # "string"
    THEN InternalErrorResponse("An unexpected error occurred while fetching transcript data",
           [name |-> "TypeError",
            message |-> Msg("ticker.toUpperCase is not a function", <<>>, 0)])
  ELSE IF Falsy(CompaniesLookup(upperTickerOf(ticker)))
    THEN Respond(400, [error |-> "Invalid ticker",
                       message |-> [text |-> "Ticker is not supported", ticker |-> ticker],
                       availableTickers |-> ObjectKeys], {})
  ELSE [kind |-> "fetch", tickers |-> <<upperTickerOf(ticker)>>]

\* The handler after `await fetchEarningsTranscript(upperTicker, apiKey)`.
TranscriptsRespond(upperTicker, result) ==
  IF ~result.success
    THEN Respond(503, [error |-> "Service unavailable",
                       message |-> [text |-> "Unable to fetch transcript for",
                                    ticker |-> upperTicker],
                       details |-> result.error], {})
  ELSE Respond(200,
         [success |-> TRUE,
          data |-> [ticker |-> result.ticker, companyName |-> result.companyName,
                    date |-> result.date, timestamp |-> result.timestamp,
                    year |-> result.year, quarter |-> result.quarter,
                    earningsTiming |-> result.earningsTiming,
                    transcript |-> result.transcript,
                    participants |-> result.participants,
                    transcriptSplit |-> result.transcriptSplit]], {})

-----------------------------------------------------------------------------
\* The state machine

NoCalls == [t \in {} |-> Undefined]

\* A client promise whose fetch() has been issued and has not settled.
PendingCall ==
  [phase |-> "fetch", up |-> Upstream("pending", 0, "none", Undefined),
   result |-> Undefined]

Init ==
  /\ pc = "idle"
  /\ env \in [API_KEY : ApiKeys]
  /\ req = [endpoint |-> "none", method |-> "none", query |-> [ticker |-> Undefined]]
  /\ fetchLog = <<>>
  /\ calls = NoCalls
  /\ res = [sent |-> 0, status |-> 0, body |-> Undefined, headers |-> {}]
  /\ log = {}

\* res.status(..).json(..) / .end(): one more response sent.
Send(step) ==
  /\ res' = [res EXCEPT !.sent = @ + 1, !.status = step.status, !.body = step.body,
                        !.headers = CorsHeaders]
  /\ log' = log \cup step.log
  /\ pc' = "done"

\* The clients called for `tickers`, each running up to its fetch().
Issue(tickers, urls) ==
  /\ calls' = [t \in {tickers[i] : i \in 1..Len(tickers)} |-> PendingCall]
  /\ fetchLog' = fetchLog \o urls
  /\ res' = [res EXCEPT !.headers = CorsHeaders]
  /\ pc' = "await"
  /\ UNCHANGED log

\* handler(req, res) of stocks.js, from the request to its first await.
StocksHandler(method) ==
  /\ pc = "idle"
  /\ req' = [endpoint |-> "stocks", method |-> method, query |-> [ticker |-> Undefined]]
  /\ LET step == StocksSync(method, env.API_KEY)
     IN IF step.kind = "respond"
          THEN Send(step) /\ UNCHANGED <<calls, fetchLog>>
          ELSE Issue(step.tickers,
                     [i \in 1..Len(step.tickers) |-> StockUrl(step.tickers[i], env.API_KEY)])
  /\ UNCHANGED env

\* handler(req, res) of transcripts.js, from the request to its first await.
TranscriptsHandler(method, ticker) ==
  /\ pc = "idle"
  /\ req' = [endpoint |-> "transcripts", method |-> method, query |-> [ticker |-> ticker]]
  /\ LET step == TranscriptsSync(method, env.API_KEY, ticker)
     IN IF step.kind = "respond"
          THEN Send(step) /\ UNCHANGED <<calls, fetchLog>>
          ELSE Issue(step.tickers,
                     [i \in 1..Len(step.tickers) |-> TranscriptUrl(step.tickers[i], env.API_KEY)])
  /\ UNCHANGED env

\* The client of the endpoint being served.
Client(ticker, up) ==
  IF req.endpoint = "stocks" THEN fetchStockPrice(ticker, up)
  ELSE fetchEarningsTranscript(ticker, up)

LogPrefix == IF req.endpoint = "stocks" THEN "Error fetching" ELSE "Error fetching transcript for"

\* The client promise of `t` fulfilled with the Result for upstream `up`.
Fulfil(t, up) ==
  LET result == Client(t, up)
  IN /\ calls' = [calls EXCEPT ![t] = [phase |-> "fulfilled", up |-> up, result |-> result]]
     /\ log' = log \cup ClientLog(LogPrefix, result)

\* The fetch() of the call for `t` settles: it rejects, or resolves to a
\* response with `status`.  The client then runs to its next await or return.
FetchSettle(t, outcome) ==
  /\ pc = "await"
  /\ calls[t].phase = "fetch"
  /\ LET up == Upstream(outcome.net, outcome.status, "none", Undefined)
     IN IF outcome.net = "response" /\ ResponseOk(outcome.status)
          THEN /\ calls' = [calls EXCEPT ![t] = [@ EXCEPT !.phase = "json", !.up = up]]
               /\ UNCHANGED log
          ELSE Fulfil(t, up)
  /\ UNCHANGED <<pc, env, req, fetchLog, res>>

\* response.json() of the call for `t` settles: a syntax error, or `data`.
JsonSettle(t, outcome) ==
  /\ pc = "await"
  /\ calls[t].phase = "json"
  /\ Fulfil(t, [calls[t].up EXCEPT !.json = outcome.json, !.data = outcome.data])
  /\ UNCHANGED <<pc, env, req, fetchLog, res>>

JsonOutcomes ==
  {[json |-> "syntax_error", data |-> Undefined]}
  \cup {[json |-> "parsed", data |-> b] :
          b \in IF req.endpoint = "stocks" THEN StockBodies ELSE TranscriptBodies}

\* stocks.js resumes from `await Promise.all(stockPromises)`.
StocksResume ==
  /\ pc = "await"
  /\ req.endpoint = "stocks"
  /\ LET all == PromiseAll(calls, ObjectKeys)
     IN /\ all.settled
        /\ Send(StocksRespond(ObjectKeys, all.values))
  /\ UNCHANGED <<env, req, fetchLog, calls>>

\* transcripts.js resumes from `await fetchEarningsTranscript(...)`.
TranscriptsResume ==
  /\ pc = "await"
  /\ req.endpoint = "transcripts"
  /\ \E t \in DOMAIN calls :
       /\ calls[t].phase = "fulfilled"
       /\ Send(TranscriptsRespond(t, calls[t].result))
  /\ UNCHANGED <<env, req, fetchLog, calls>>

Next ==
  \/ \E method \in Methods : StocksHandler(method)
  \/ \E method \in Methods, ticker \in QueryTickers : TranscriptsHandler(method, ticker)
  \/ \E t \in DOMAIN calls, o \in FetchOutcomes : FetchSettle(t, o)
  \/ \E t \in DOMAIN calls, o \in JsonOutcomes : JsonSettle(t, o)
  \/ StocksResume
  \/ TranscriptsResume

Spec == Init /\ [][Next]_vars

-----------------------------------------------------------------------------
\* Vocabulary of the properties, stated on the request and on what the
\* upstream did rather than on the handlers' own tests

\* The API key is configured: set, and not to the empty string.
KeyConfigured == env.API_KEY.type = "string" /\ Len(env.API_KEY.val) > 0

StocksGet == req.endpoint = "stocks" /\ req.method = "GET" /\ KeyConfigured

TranscriptsGet == req.endpoint = "transcripts" /\ req.method = "GET" /\ KeyConfigured

\* The call for `t` has settled.
Settled(t) == t \in DOMAIN calls /\ calls[t].phase = "fulfilled"

\* An upstream call failed: network error, non-2xx status, unparsable body,
\* or a body without the field the endpoint requires.
CallFailed(up) ==
  \/ up.net # "response"
  \/ up.status < 200 \/ up.status > 299
  \/ up.json # "parsed"
  \/ up.data.type # "object"
  \/ req.endpoint = "stocks" /\ up.data.price.type # "number"
  \/ /\ req.endpoint = "transcripts"
     /\ \/ up.data.transcript.type # "string"
        \/ Len(up.data.transcript.val) = 0

FailedTickers == {t \in DOMAIN calls : Settled(t) /\ CallFailed(calls[t].up)}

SucceededTickers == {t \in DOMAIN calls : Settled(t) /\ ~CallFailed(calls[t].up)}

\* The positions of sequence `seq` whose entry is about ticker `t`.
EntriesFor(seq, t) == {i \in 1..Len(seq) : seq[i].ticker = t}

\* `message` is an error string: a non-empty text.
IsErrorString(message) ==
  DOMAIN message = {"text", "ticker", "status"} /\ Len(message.text) > 0

-----------------------------------------------------------------------------
\* C1: stocks, GET, key configured: when every per-ticker upstream call has
\* failed, whatever the causes, the response is 503 and its details hold
\* exactly one {ticker, error} entry per ticker of the fixed set, carrying that
\* ticker's error.
C1_AllFailed503 ==
  (pc = "done" /\ StocksGet /\ FailedTickers = Tickers) =>
    /\ res.status = 503
    /\ Len(res.body.details) = Cardinality(Tickers)
    /\ \A t \in Tickers :
         /\ Cardinality(EntriesFor(res.body.details, t)) = 1
         /\ \A i \in EntriesFor(res.body.details, t) :
              /\ DOMAIN res.body.details[i] = {"ticker", "error"}
              /\ res.body.details[i].error = calls[t].result.error

\* All five calls failed, for at least three different causes, and 503 was sent.
C1_Witness ==
  /\ pc = "done" /\ StocksGet /\ FailedTickers = Tickers
  /\ res.status = 503
  /\ Cardinality({calls[t].result.error.text : t \in Tickers}) >= 3

\* C2: stocks, GET, key configured: when at least one upstream call succeeded
\* the response is 200, never 503, and stocks holds exactly one entry per
\* successful ticker, so that its length is metadata.successful.
C2_PartialSuccess200 ==
  (pc = "done" /\ StocksGet /\ SucceededTickers # {}) =>
    /\ res.status = 200
    /\ Len(res.body.stocks) = Cardinality(SucceededTickers)
    /\ Len(res.body.stocks) = res.body.metadata.successful
    /\ \A t \in Tickers :
         Cardinality(EntriesFor(res.body.stocks, t)) =
           IF t \in SucceededTickers THEN 1 ELSE 0

\* One call succeeded, the four others failed, and 200 was sent.
C2_Witness ==
  /\ pc = "done" /\ StocksGet
  /\ Cardinality(SucceededTickers) = 1
  /\ Cardinality(FailedTickers) = 4
  /\ res.status = 200

\* C3: stocks: every 200 response to a GET carries metadata.total equal to the
\* size of the fixed ticker set, which is 5, and successful + failed = total.
C3_MetadataTotals ==
  (pc = "done" /\ req.endpoint = "stocks" /\ req.method = "GET" /\ res.status = 200) =>
    /\ res.body.metadata.total = Cardinality(Tickers)
    /\ res.body.metadata.total = 5
    /\ res.body.metadata.successful + res.body.metadata.failed = res.body.metadata.total
    /\ res.body.metadata.successful = Cardinality(SucceededTickers)
    /\ res.body.metadata.failed = Cardinality(FailedTickers)

\* A 200 response with both successes and failures counted.
C3_Witness ==
  /\ pc = "done" /\ req.endpoint = "stocks" /\ req.method = "GET" /\ res.status = 200
  /\ res.body.metadata.successful = 2
  /\ res.body.metadata.failed = 3

\* C4: every client invocation that has settled resolved to a Result (the
\* client promise is never rejected), and the Result is a success with a
\* numeric price (stocks) or a present transcript (transcripts) and no error,
\* exactly when the upstream call did not fail, and otherwise a failure with an
\* error string and no populated price or transcript.
C4_ResultShape ==
  \A t \in DOMAIN calls :
    /\ calls[t].phase \in {"fetch", "json", "fulfilled"}
    /\ Settled(t) =>
         LET r == calls[t].result
         IN /\ "success" \in DOMAIN r
            /\ r.success \in BOOLEAN
            /\ r.success = ~CallFailed(calls[t].up)
            /\ r.ticker = t
            /\ r.success =>
                 /\ "error" \notin DOMAIN r
                 /\ req.endpoint = "stocks" => r.price.type = "number"
                 /\ req.endpoint = "transcripts" =>
                      r.transcript.type = "string" /\ Len(r.transcript.val) > 0
            /\ ~r.success =>
                 /\ "error" \in DOMAIN r
                 /\ IsErrorString(r.error)
                 /\ req.endpoint = "stocks" => r.price = JsonNull
                 /\ req.endpoint = "transcripts" => "transcript" \notin DOMAIN r

\* Within one stocks request: a network error, a non-2xx status, a body
\* without a numeric price and a valid body have each produced their Result.
C4_Witness ==
  /\ req.endpoint = "stocks"
  /\ \E a, b, c, d \in DOMAIN calls :
       /\ Settled(a) /\ calls[a].up.net = "reject" /\ ~calls[a].result.success
       /\ Settled(b) /\ calls[b].up.status = 500 /\ ~calls[b].result.success
       /\ Settled(c) /\ calls[c].up.json = "parsed" /\ ~calls[c].result.success
       /\ Settled(d) /\ calls[d].result.success

-----------------------------------------------------------------------------
\* A request has been received.
Received == pc # "idle"

\* No upstream call has been attempted.
NoUpstreamCall == fetchLog = <<>> /\ calls = NoCalls

\* C5 as stated: with the API key missing, a request of any method other than
\* OPTIONS is answered 500, and no upstream call is attempted.
C5_AnyMethod500 ==
  (Received /\ ~KeyConfigured /\ req.method # "OPTIONS") =>
    pc = "done" /\ res.status = 500 /\ NoUpstreamCall

\* C5, amended: with the API key missing (unset or empty), a GET request is
\* answered 500 with the configuration error, a request of any other method
\* than GET and OPTIONS is answered 405, and in both cases no upstream call is
\* attempted.
C5_Get500 ==
  (Received /\ ~KeyConfigured /\ req.method # "OPTIONS") =>
    /\ pc = "done"
    /\ res.sent = 1
    /\ NoUpstreamCall
    /\ req.method = "GET" =>
         res.status = 500 /\ res.body.error = "Server configuration error"
    /\ req.method # "GET" => res.status = 405

\* A GET for a supported ticker, with API_KEY set to the empty string, got 500.
C5_Witness ==
  /\ pc = "done" /\ req.endpoint = "transcripts" /\ req.method = "GET"
  /\ env.API_KEY = Str(<<>>)
  /\ req.query.ticker = Str(MSFT)
  /\ res.status = 500 /\ NoUpstreamCall

\* C6: on both endpoints a request whose method is neither GET nor OPTIONS is
\* answered 405, whatever the query and the API key configuration, and no
\* upstream call is attempted for it.
C6_MethodNotAllowed ==
  (Received /\ req.method \notin {"GET", "OPTIONS"}) =>
    /\ pc = "done"
    /\ res.sent = 1
    /\ res.status = 405
    /\ res.body.error = "Method not allowed"
    /\ NoUpstreamCall

\* A POST for a supported ticker with the key configured got 405.
C6_Witness ==
  /\ pc = "done" /\ req.endpoint = "transcripts" /\ req.method = "POST"
  /\ KeyConfigured
  /\ req.query.ticker = Str(MSFT)
  /\ res.status = 405 /\ NoUpstreamCall

\* The ticker parameter is missing: absent, or empty.
TickerMissing == req.query.ticker.type = "undefined" \/ req.query.ticker = Str(<<>>)

\* The ticker parameter matches an entry of the allow-list, letter case aside.
TickerAllowed ==
  /\ req.query.ticker.type = "string"
  /\ \E t \in Tickers :
       /\ Len(t) = Len(req.query.ticker.val)
       /\ \A i \in 1..Len(t) :
            \/ req.query.ticker.val[i] = t[i]
            \/ \E k \in 1..Len(Lower) : Lower[k] = req.query.ticker.val[i] /\ Upper[k] = t[i]

\* The upstream transcript client is invoked only for an allow-listed ticker,
\* and then exactly once.
C7_UpstreamOnlyIfAllowed ==
  IF TickerAllowed THEN Len(fetchLog) = 1 /\ Cardinality(DOMAIN calls) = 1
  ELSE NoUpstreamCall

\* C7 as stated: transcripts, GET, key configured: a missing ticker yields the
\* 200 discovery payload with the full allow-list, a ticker that does not match
\* the allow-list yields 400 naming the value, neither attempts an upstream
\* call, and the client is invoked, once, only for an allow-listed ticker.
C7_TickerValidation ==
  (Received /\ TranscriptsGet) =>
    /\ C7_UpstreamOnlyIfAllowed
    /\ TickerMissing =>
         /\ pc = "done" /\ res.status = 200
         /\ res.body.availableTickers = ObjectKeys
    /\ (~TickerMissing /\ ~TickerAllowed) =>
         /\ pc = "done" /\ res.status = 400
         /\ res.body.message.ticker = req.query.ticker

\* What C7 states, for the requests whose ticker parameter is absent or one
\* string (it holds of these).
C7_SingleValuedTicker ==
  req.query.ticker.type \in {"undefined", "string"} => C7_TickerValidation

\* What the handler produces for a GET with the key configured, the ticker
\* parameter `ticker` and the upstream behaving as `up`: the upstream calls
\* and the response.
TranscriptsRun(ticker, up) ==
  LET step == TranscriptsSync("GET", env.API_KEY, ticker)
  IN IF step.kind = "respond"
       THEN [fetched |-> <<>>, status |-> step.status, body |-> step.body]
       ELSE LET answer == TranscriptsRespond(step.tickers[1],
                            fetchEarningsTranscript(step.tickers[1], up))
            IN [fetched |-> [i \in 1..Len(step.tickers) |->
                               TranscriptUrl(step.tickers[i], env.API_KEY)],
                status |-> answer.status, body |-> answer.body]

\* C8: transcripts, GET, key configured: a request that names an allow-listed
\* ticker in lowercase or mixed case makes the upstream call, and gets the
\* status and the body, that the request naming it in uppercase makes and gets
\* for the same upstream response.
C8_CaseInsensitive ==
  (Received /\ TranscriptsGet /\ TickerAllowed) =>
    LET upper == Str(toUpperCase(req.query.ticker.val))
    IN /\ upper.val \in Tickers
       /\ fetchLog = TranscriptsRun(upper, PendingCall.up).fetched
       /\ DOMAIN calls = {upper.val}
       /\ pc = "done" =>
            /\ res.status = TranscriptsRun(upper, calls[upper.val].up).status
            /\ res.body = TranscriptsRun(upper, calls[upper.val].up).body

\* A lowercase request for MSFT was answered 200 with the transcript.
C8_Witness ==
  /\ pc = "done" /\ TranscriptsGet
  /\ req.query.ticker = Str(<<"m","s","f","t">>)
  /\ res.status = 200
  /\ res.body.data.ticker = MSFT

\* An error was caught at the handler boundary.
CaughtErrors == {l \in log : l.line = "Unexpected error"}

\* C9 as stated: an unexpected runtime error raised after the method check is
\* answered 500 with a generic internal-error message only: no field of the
\* body carries a detail of the error, such as its message.
C9_OpaqueInternalError ==
  \A l \in CaughtErrors :
    /\ pc = "done"
    /\ res.status = 500
    /\ res.body.error = "Internal server error"
    /\ res.body.message # l.error.message
    /\ \A f \in DOMAIN res.body \ {"error", "message"} : res.body[f] # l.error.message

\* C10: stocks, GET, key configured: the upstream client is invoked exactly
\* once per ticker of the fixed set, and the one response is sent only when
\* every one of these calls has settled, in whatever order they settle.
C10_WaitForAll ==
  (Received /\ StocksGet) =>
    /\ Len(fetchLog) = Cardinality(Tickers)
    /\ \A t \in Tickers : Cardinality(EntriesFor(fetchLog, t)) = 1
    /\ DOMAIN calls = Tickers
    /\ res.sent = IF pc = "done" THEN 1 ELSE 0
    /\ res.sent > 0 => \A t \in Tickers : Settled(t)

\* The last four calls have settled, some failed and some succeeded, the
\* first is still pending, and no response has been sent.
C10_Witness ==
  /\ pc = "await" /\ StocksGet
  /\ calls[AAPL].phase = "fetch"
  /\ \A t \in Tickers \ {AAPL} : Settled(t)
  /\ calls[MSFT].result.success /\ ~calls[AMZN].result.success
  /\ res.sent = 0

====
